---- MODULE Spec2Model ----
(***************************************************************************)
(* WaterSense backend (src/index.js): the alert notification pipeline.     *)
(*                                                                         *)
(*   POST /api/ingest            -> checkAlerts (smoothing, thresholds,    *)
(*                                  cooldown gate, enqueue)                *)
(*   GET  /api/alerts/sms/select -> claim one PENDING row, fetch, commit   *)
(*   POST /api/alerts/sms/update -> acknowledge a CLAIMED row              *)
(*   POST /api/alerts/subscribers-> subscribe / reactivate                 *)
(*                                                                         *)
(* The relational store is PostgreSQL at its default isolation level,      *)
(* READ COMMITTED: every statement sees the rows committed when it starts  *)
(* plus its own transaction's writes; a row lock held by an uncommitted    *)
(* transaction blocks a second locker, which re-evaluates the WHERE clause *)
(* on the committed version once the first transaction ends.               *)
(*                                                                         *)
(* Water levels are fixed-point numbers: Scale units per centimetre.       *)
(***************************************************************************)
EXTENDS Integers, Sequences, FiniteSets, TLC

\* ------------------------------------------------------------ bounds
NumSubscribers == 2
NumPollers == 2
NumSensors == 1
NumRequests == 2
MaxRows == 3
MaxTime == 60
TickSeconds == 60
Scale == 2

\* ------------------------------------------------- program constants
PENDING == 0
SENT == 1
CLAIMED == 2
NULL == -1
NaN == -1000
DEFAULT_COOLDOWN == 300
EMERGENCY_COOLDOWN == 60
EmergencyLevel == 100
DangerLevel == 60
WarningLevel == 40
CautionLevel == 20
ClampMax == 180

Subscribers == 1..NumSubscribers
Pollers == 1..NumPollers
Sensors == 1..NumSensors
\* the POST /api/ingest requests that can be in flight at once; sensor e posts
\* as request e
Requests == 1..NumRequests
RowIds == 1..MaxRows

VARIABLES
    now,                \* Date.now() / NOW(), in seconds
    sms_subscribers,    \* subscriber -> "absent" | "active" | "inactive"
    alert_notifications,\* rows of the table; id = index
    inserting,          \* request -> ids its INSERT has written and not yet committed
    SMS_DISABLED,       \* process.env.SMS_DISABLED === "true"
    pc,                 \* poller -> position in GET /api/alerts/sms/select ("idle": no request;
                        \* "failed": the handler's promise rejected, no response was sent)
    snap,               \* poller -> ids the claim statement's snapshot sees PENDING
    claimed,            \* poller -> id its uncommitted UPDATE set to CLAIMED, 0 if none
    result,             \* poller -> id of result.rows[0], 0 when result.rows is empty
    ackReply,           \* <<id, body>> of the last POST /api/alerts/sms/update
    epc,                \* request -> position in POST /api/ingest ("caught": in the
                        \* catch block around checkAlerts)
    level,              \* request -> the handler's level (rawWater after the clamp)
    waterLevel,         \* request -> checkAlerts' waterLevel
    status,             \* request -> checkAlerts' status ("NONE" for null)
    alertType,          \* request -> checkAlerts' alertType
    queries,            \* request -> pool.query calls issued by the running checkAlerts
    returned,           \* history: id -> number of polls that responded with it
    claims,             \* history: id -> number of committed PENDING->CLAIMED updates
    sentReplies         \* history: id -> number of "SENT" replies

pollVars == <<pc, snap, claimed, result>>
evalVars == <<epc, level, waterLevel, status, alertType, queries, inserting>>
histVars == <<returned, claims, sentReplies>>
vars == <<now, sms_subscribers, alert_notifications, SMS_DISABLED, pollVars,
          ackReply, evalVars, histVars>>

\* ------------------------------------------------------------ helpers
Min(S) == CHOOSE x \in S : \A y \in S : x <= y

Max(S) == CHOOSE x \in S : \A y \in S : x >= y

\* Math.round on a fixed-point number: floor(x + 0.5), as a fixed-point number
MathRound(x) == ((2 * x + Scale) \div (2 * Scale)) * Scale

IsWhole(x) == x % Scale = 0

\* rawWater clamped to [0, 180]; every comparison with NaN is false
Clamp(x) ==
    IF x = NaN THEN NaN
    ELSE IF x < 0 THEN 0 ELSE IF x > ClampMax * Scale THEN ClampMax * Scale ELSE x

\* ---------------------------------------------------- checkAlerts, pure
\* the threshold chain with > for >=
ClassifyStrict(v) ==
    IF v > EmergencyLevel * Scale THEN <<"EMERGENCY", "EMERGENCY">>
    ELSE IF v > DangerLevel * Scale THEN <<"DANGER", "DANGER">>
    ELSE IF v > WarningLevel * Scale THEN <<"WARNING", "WARNING">>
    ELSE IF v > CautionLevel * Scale THEN <<"CAUTION", "ALERT">>
    ELSE <<"NONE", "NONE">>

\* the threshold chain without its final else: the lowest tier catches the rest
ClassifyNoFloor(v) ==
    IF v >= EmergencyLevel * Scale THEN <<"EMERGENCY", "EMERGENCY">>
    ELSE IF v >= DangerLevel * Scale THEN <<"DANGER", "DANGER">>
    ELSE IF v >= WarningLevel * Scale THEN <<"WARNING", "WARNING">>
    ELSE <<"CAUTION", "ALERT">>

\* the threshold chain: <<status, alertType>>, status "NONE" for the early return
\* (NaN >= t is false for every t: NaN falls through to the else)
Classify(v) ==
    IF v = NaN THEN <<"NONE", "NONE">>
    ELSE IF v >= EmergencyLevel * Scale THEN <<"EMERGENCY", "EMERGENCY">>
    ELSE IF v >= DangerLevel * Scale THEN <<"DANGER", "DANGER">>
    ELSE IF v >= WarningLevel * Scale THEN <<"WARNING", "WARNING">>
    ELSE IF v >= CautionLevel * Scale THEN <<"CAUTION", "ALERT">>
    ELSE <<"NONE", "NONE">>

Cooldown(s) == IF s = "EMERGENCY" THEN EMERGENCY_COOLDOWN ELSE DEFAULT_COOLDOWN

\* the committed rows: the ones every statement sees. id SERIAL draws the id
\* when the row is written, before the INSERT commits.
Visible == DOMAIN alert_notifications \ UNION {inserting[e] : e \in Requests}

\* SELECT sent_at FROM alert_notifications WHERE status = $1
\* ORDER BY sent_at DESC LIMIT 1: the rows of the result (at most one sent_at).
\* PostgreSQL sorts NULL first under DESC.
LastSentAt(s) ==
    LET rows == {i \in Visible : alert_notifications[i].status = s}
        nulls == {i \in rows : alert_notifications[i].sent_at = NULL}
    IN  IF rows = {} THEN <<>>
        ELSE IF nulls # {} THEN <<NULL>>
        ELSE <<Max({alert_notifications[i].sent_at : i \in rows})>>

\* the cooldown test of checkAlerts: TRUE when the function returns early
Suppressed(s) ==
    LET last == LastSentAt(s)
    IN  /\ Len(last) > 0
        /\ last[1] # NULL
        /\ now - last[1] < Cooldown(s)

\* the rows INSERT ... SELECT ... FROM sms_subscribers WHERE is_active = TRUE adds
ActiveSubscribers == {s \in Subscribers : sms_subscribers[s] = "active"}

RECURSIVE SetToSeq(_)
SetToSeq(S) == IF S = {} THEN <<>> ELSE <<Min(S)>> \o SetToSeq(S \ {Min(S)})

\* the INSERT with 2 for 0 in its delivery_status column
NewRowClaimed(sub, type, cm, s) ==
    [subscriber_id |-> sub, alert_type |-> type, water_level_cm |-> cm,
     status |-> s, delivery_status |-> CLAIMED, sent_at |-> NULL, attempt_count |-> 0]

\* the INSERT with NOW() in its sent_at column
NewRowStamped(sub, type, cm, s) ==
    [subscriber_id |-> sub, alert_type |-> type, water_level_cm |-> cm,
     status |-> s, delivery_status |-> PENDING, sent_at |-> now, attempt_count |-> 0]

NewRow(sub, type, cm, s) ==
    [subscriber_id |-> sub, alert_type |-> type, water_level_cm |-> cm,
     status |-> s, delivery_status |-> PENDING, sent_at |-> NULL, attempt_count |-> 0]

QueuedRows(type, cm, s) ==
    LET subs == SetToSeq(ActiveSubscribers)
    IN  [k \in 1..Len(subs) |-> NewRow(subs[k], type, cm, s)]

\* ------------------------------------------------------------- state
Init ==
    /\ now = 0
    /\ sms_subscribers = [s \in Subscribers |-> "absent"]
    /\ alert_notifications = <<>>
    /\ SMS_DISABLED = FALSE
    /\ pc = [p \in Pollers |-> "idle"]
    /\ snap = [p \in Pollers |-> {}]
    /\ claimed = [p \in Pollers |-> 0]
    /\ result = [p \in Pollers |-> 0]
    /\ ackReply = <<0, "NONE">>
    /\ epc = [e \in Requests |-> "idle"]
    /\ level = [e \in Requests |-> 0]
    /\ waterLevel = [e \in Requests |-> 0]
    /\ status = [e \in Requests |-> "NONE"]
    /\ alertType = [e \in Requests |-> "NONE"]
    /\ queries = [e \in Requests |-> 0]
    /\ inserting = [e \in Requests |-> {}]
    /\ returned = [r \in RowIds |-> 0]
    /\ claims = [r \in RowIds |-> 0]
    /\ sentReplies = [r \in RowIds |-> 0]

\* ------------------------------------ GET /api/alerts/sms/select
InTx(p) == pc[p] \in {"fetch", "commit"}

\* the pollers other than p whose open transaction holds the row lock of r
LockHolders(p, r) == {q \in Pollers \ {p} : InTx(q) /\ claimed[q] = r}

\* a claim statement that never waits for a row lock
BlockedNever(p, r) == FALSE

Blocked(p, r) == LockHolders(p, r) # {}

\* SELECT id ... WHERE delivery_status = 0 ORDER BY id ASC LIMIT 1 FOR UPDATE:
\* the rows of the statement's snapshot in id order; a row whose committed
\* version no longer passes the WHERE clause is skipped and the scan goes on to
\* the next row (the lock is taken below the LIMIT). 0 when no row is left.
\* the LIMIT applied before the lock: only the first row of the snapshot is tried
CandidateNoRecheck(p) ==
    IF snap[p] = {} THEN 0
    ELSE IF alert_notifications[Min(snap[p])].delivery_status = PENDING
         THEN Min(snap[p]) ELSE 0

\* the claim statement with delivery_status <> 1 for delivery_status = 0
CandidateNotSent(p) ==
    LET live == {i \in DOMAIN alert_notifications :
                    alert_notifications[i].delivery_status # SENT}
    IN  IF live = {} THEN 0 ELSE Min(live)

Candidate(p) ==
    LET live == {i \in snap[p] : alert_notifications[i].delivery_status = PENDING}
    IN  IF live = {} THEN 0 ELSE Min(live)

\* the table as a statement of p's transaction sees it: the committed rows
\* and p's own uncommitted UPDATE
View(p) ==
    [i \in DOMAIN alert_notifications |->
        IF InTx(p) /\ claimed[p] = i
        THEN [alert_notifications[i] EXCEPT !.delivery_status = CLAIMED]
        ELSE alert_notifications[i]]

\* STEP 2: ... WHERE a.delivery_status = 2 AND s.is_active = TRUE
\* ORDER BY a.id ASC LIMIT 1; 0 when result.rows is empty
FetchRow(p) ==
    LET v == View(p)
        rows == {i \in DOMAIN v : /\ v[i].delivery_status = CLAIMED
                                  /\ sms_subscribers[v[i].subscriber_id] = "active"}
    IN  IF rows = {} THEN 0 ELSE Min(rows)

\* the handler without its kill switch
SelectBeginNoSwitch(p) ==
    /\ pc[p] = "idle"
    /\ pc' = [pc EXCEPT ![p] = "lock"]
    /\ snap' = [snap EXCEPT ![p] =
           {i \in Visible : alert_notifications[i].delivery_status = PENDING}]
    /\ UNCHANGED <<now, sms_subscribers, alert_notifications, SMS_DISABLED, claimed,
                   result, ackReply, evalVars, histVars>>

\* the kill switch (respond [] and return), else pool.connect(), BEGIN, and the
\* start of the STEP 1 statement, which takes its snapshot
SelectBegin(p) ==
    /\ pc[p] = "idle"
    /\ IF SMS_DISABLED
       THEN UNCHANGED <<pc, snap>>
       ELSE /\ pc' = [pc EXCEPT ![p] = "lock"]
            /\ snap' = [snap EXCEPT ![p] =
                   {i \in Visible :
                       alert_notifications[i].delivery_status = PENDING}]
    /\ UNCHANGED <<now, sms_subscribers, alert_notifications, SMS_DISABLED, claimed,
                   result, ackReply, evalVars, histVars>>

\* STEP 1 completes: the row is locked and set to CLAIMED inside the open
\* transaction, or no row is left (rowCount 0: ROLLBACK, respond [], release)
SelectLock(p) ==
    /\ pc[p] = "lock"
    /\ LET r == Candidate(p)
       IN  IF r = 0
           THEN /\ pc' = [pc EXCEPT ![p] = "idle"]
                /\ UNCHANGED claimed
           ELSE /\ ~Blocked(p, r)
                /\ pc' = [pc EXCEPT ![p] = "fetch"]
                /\ claimed' = [claimed EXCEPT ![p] = r]
    /\ snap' = [snap EXCEPT ![p] = {}]
    /\ UNCHANGED <<now, sms_subscribers, alert_notifications, SMS_DISABLED, result,
                   ackReply, evalVars, histVars>>

\* STEP 2: the fetch query
SelectFetch(p) ==
    /\ pc[p] = "fetch"
    /\ pc' = [pc EXCEPT ![p] = "commit"]
    /\ result' = [result EXCEPT ![p] = FetchRow(p)]
    /\ UNCHANGED <<now, sms_subscribers, alert_notifications, SMS_DISABLED, snap,
                   claimed, ackReply, evalVars, histVars>>

\* COMMIT, res.json(result.rows) and, in the finally block, client.release()
SelectCommit(p) ==
    /\ pc[p] = "commit"
    /\ pc' = [pc EXCEPT ![p] = "idle"]
    /\ alert_notifications' =
           [alert_notifications EXCEPT ![claimed[p]].delivery_status = CLAIMED]
    /\ claims' = [claims EXCEPT ![claimed[p]] = @ + 1]
    /\ returned' = IF result[p] = 0 THEN returned
                   ELSE [returned EXCEPT ![result[p]] = @ + 1]
    /\ claimed' = [claimed EXCEPT ![p] = 0]
    /\ result' = [result EXCEPT ![p] = 0]
    /\ UNCHANGED <<now, sms_subscribers, SMS_DISABLED, snap, ackReply, evalVars,
                   sentReplies>>

\* pool.connect() rejects: it is awaited before the try, so the rejection
\* leaves the handler and no response is sent
SelectConnectFails(p) ==
    /\ pc[p] = "idle"
    /\ ~SMS_DISABLED
    /\ pc' = [pc EXCEPT ![p] = "failed"]
    /\ UNCHANGED <<now, sms_subscribers, alert_notifications, SMS_DISABLED, snap,
                   claimed, result, ackReply, evalVars, histVars>>

\* BEGIN, STEP 1, STEP 2 or COMMIT rejects: the catch block rolls back,
\* responds [] and the finally block releases the client
SelectFails(p) ==
    /\ pc[p] \in {"lock", "fetch", "commit"}
    /\ pc' = [pc EXCEPT ![p] = "idle"]
    /\ snap' = [snap EXCEPT ![p] = {}]
    /\ claimed' = [claimed EXCEPT ![p] = 0]
    /\ result' = [result EXCEPT ![p] = 0]
    /\ UNCHANGED <<now, sms_subscribers, alert_notifications, SMS_DISABLED, ackReply,
                   evalVars, histVars>>

\* a statement rejects and so does the ROLLBACK of the catch block (the
\* connection is gone): the rejection leaves the handler before res.json([]);
\* the store drops the open transaction
SelectRollbackFails(p) ==
    /\ pc[p] \in {"lock", "fetch", "commit"}
    /\ pc' = [pc EXCEPT ![p] = "failed"]
    /\ snap' = [snap EXCEPT ![p] = {}]
    /\ claimed' = [claimed EXCEPT ![p] = 0]
    /\ result' = [result EXCEPT ![p] = 0]
    /\ UNCHANGED <<now, sms_subscribers, alert_notifications, SMS_DISABLED, ackReply,
                   evalVars, histVars>>

\* ------------------------------------ POST /api/alerts/sms/update
\* UPDATE ... WHERE id = $1 AND delivery_status = 2: the rows it matches
\* the UPDATE without its delivery_status condition
AckMatchesAnyStatus(id) == {i \in DOMAIN alert_notifications : i = id}

\* the UPDATE with delivery_status <> 0 for delivery_status = 2
AckMatchesNotPending(id) ==
    {i \in DOMAIN alert_notifications :
        i = id /\ alert_notifications[i].delivery_status # PENDING}

AckMatches(id) ==
    {i \in DOMAIN alert_notifications :
        i = id /\ alert_notifications[i].delivery_status = CLAIMED}

Acknowledge(id) ==
    /\ IF id = 0
       THEN /\ ackReply' = <<id, "INVALID">>
            /\ UNCHANGED <<alert_notifications, sentReplies>>
       ELSE LET hit == AckMatches(id)
            IN  /\ alert_notifications' =
                       [i \in DOMAIN alert_notifications |->
                           IF i \in hit
                           THEN [alert_notifications[i] EXCEPT
                                    !.delivery_status = SENT,
                                    !.attempt_count = @ + 1,
                                    !.sent_at = now]
                           ELSE alert_notifications[i]]
                /\ ackReply' = <<id, IF Cardinality(hit) = 1 THEN "SENT" ELSE "SKIPPED">>
                /\ sentReplies' = [r \in RowIds |->
                       IF r = id /\ Cardinality(hit) = 1
                       THEN sentReplies[r] + 1 ELSE sentReplies[r]]
    /\ UNCHANGED <<now, sms_subscribers, SMS_DISABLED, pollVars, evalVars,
                   returned, claims>>

\* the UPDATE rejects: the catch block responds "ERROR"
AcknowledgeFails(id) ==
    /\ id # 0
    /\ ackReply' = <<id, "ERROR">>
    /\ UNCHANGED <<now, sms_subscribers, alert_notifications, SMS_DISABLED, pollVars,
                   evalVars, histVars>>

\* ------------------------------------------------ POST /api/ingest
\* readings the sensors post and values the time-series store answers with
RawLevels == {EmergencyLevel * Scale}

AvgLevels == {EmergencyLevel * Scale - 1}

\* what collectRows does: throws, resolves to no rows, to a row whose _value is
\* null, or to a row with a value
AvgFailures == {<<"throw", 0>>, <<"empty", 0>>, <<"null", 0>>}

AvgValues(levels) == {<<"value", v>> : v \in levels}

AllLevels == (0 - 1)..(ClampMax * Scale + 1)

\* smoothedLevel after the try/catch around queryApi.collectRows
\* smoothedLevel starting from 0 instead of the reading
SmoothedFromZero(raw, outcome) ==
    IF outcome[1] = "value" THEN MathRound(outcome[2]) ELSE 0

Smoothed(raw, outcome) ==
    IF outcome[1] = "value" THEN MathRound(outcome[2]) ELSE raw

\* the handler up to the first await of checkAlerts: the reading is clamped
\* and the moving-average query is issued
IngestFrom(e, raws) ==
    /\ epc[e] = "idle"
    /\ \E raw \in raws :
          /\ level' = [level EXCEPT ![e] = Clamp(raw)]
          /\ waterLevel' = [waterLevel EXCEPT ![e] = Clamp(raw)]
    /\ epc' = [epc EXCEPT ![e] = "avg"]
    /\ queries' = [queries EXCEPT ![e] = 0]
    /\ UNCHANGED <<now, sms_subscribers, alert_notifications, SMS_DISABLED, pollVars,
                   ackReply, status, alertType, inserting, histVars>>

\* 1. moving average and 2. threshold logic
CheckAvgFrom(e, outcomes) ==
    /\ epc[e] = "avg"
    /\ \E outcome \in outcomes :
          LET v == Smoothed(waterLevel[e], outcome)
          IN  /\ waterLevel' = [waterLevel EXCEPT ![e] = v]
              /\ status' = [status EXCEPT ![e] = Classify(v)[1]]
              /\ alertType' = [alertType EXCEPT ![e] = Classify(v)[2]]
              /\ epc' = [epc EXCEPT ![e] =
                     IF Classify(v)[1] = "NONE" THEN "done" ELSE "cooldown"]
    /\ UNCHANGED <<now, sms_subscribers, alert_notifications, SMS_DISABLED, pollVars,
                   ackReply, level, queries, inserting, histVars>>

\* 3. cooldown check
CheckCooldown(e) ==
    /\ epc[e] = "cooldown"
    /\ queries' = [queries EXCEPT ![e] = @ + 1]
    /\ epc' = [epc EXCEPT ![e] = IF Suppressed(status[e]) THEN "done" ELSE "insert"]
    /\ UNCHANGED <<now, sms_subscribers, alert_notifications, SMS_DISABLED, pollVars,
                   ackReply, level, waterLevel, status, alertType, inserting, histVars>>

\* the cooldown query rejects: checkAlerts throws into the handler's catch
CheckCooldownFails(e) ==
    /\ epc[e] = "cooldown"
    /\ queries' = [queries EXCEPT ![e] = @ + 1]
    /\ epc' = [epc EXCEPT ![e] = "caught"]
    /\ UNCHANGED <<now, sms_subscribers, alert_notifications, SMS_DISABLED, pollVars,
                   ackReply, level, waterLevel, status, alertType, inserting, histVars>>

\* 4. queue alerts. water_level_cm is an INTEGER column: a level that is not a
\* whole number makes the statement fail, and the handler's catch swallows it.
\* The statement writes its rows and commits in one step: exact while no other
\* INSERT runs at the same time.
QueueAlerts(e) ==
    /\ epc[e] = "insert"
    /\ Len(alert_notifications) + Cardinality(ActiveSubscribers) <= MaxRows
    /\ queries' = [queries EXCEPT ![e] = @ + 1]
    /\ IF IsWhole(waterLevel[e])
       THEN /\ alert_notifications' = alert_notifications \o
                    QueuedRows(alertType[e], waterLevel[e], status[e])
            /\ epc' = [epc EXCEPT ![e] = "done"]
       ELSE /\ alert_notifications' = alert_notifications
            /\ epc' = [epc EXCEPT ![e] = "caught"]
    /\ UNCHANGED <<now, sms_subscribers, SMS_DISABLED, pollVars, ackReply,
                   level, waterLevel, status, alertType, inserting, histVars>>

\* 4. queue alerts, as the store runs the statement next to other statements:
\* the rows are written, each drawing the next id of the sequence, ...
InsertWrite(e) ==
    /\ epc[e] = "insert"
    /\ Len(alert_notifications) + Cardinality(ActiveSubscribers) <= MaxRows
    /\ queries' = [queries EXCEPT ![e] = @ + 1]
    /\ IF IsWhole(waterLevel[e])
       THEN /\ alert_notifications' = alert_notifications \o
                    QueuedRows(alertType[e], waterLevel[e], status[e])
            /\ inserting' = [inserting EXCEPT ![e] =
                   (Len(alert_notifications) + 1)..
                       (Len(alert_notifications) + Cardinality(ActiveSubscribers))]
            /\ epc' = [epc EXCEPT ![e] = "written"]
       ELSE /\ UNCHANGED <<alert_notifications, inserting>>
            /\ epc' = [epc EXCEPT ![e] = "caught"]
    /\ UNCHANGED <<now, sms_subscribers, SMS_DISABLED, pollVars, ackReply,
                   level, waterLevel, status, alertType, histVars>>

\* ... and the statement commits: its rows become visible to the other statements
InsertCommit(e) ==
    /\ epc[e] = "written"
    /\ inserting' = [inserting EXCEPT ![e] = {}]
    /\ epc' = [epc EXCEPT ![e] = "done"]
    /\ UNCHANGED <<now, sms_subscribers, alert_notifications, SMS_DISABLED, pollVars,
                   ackReply, level, waterLevel, status, alertType, queries, histVars>>

\* the INSERT rejects (store unavailable): a statement that fails leaves none
\* of its rows, and checkAlerts throws into the handler's catch
\* a failing INSERT that leaves the rows it had written before the failure
QueueAlertsFailsPartial(e) ==
    /\ epc[e] = "insert"
    /\ ActiveSubscribers # {}
    /\ Len(alert_notifications) + 1 <= MaxRows
    /\ queries' = [queries EXCEPT ![e] = @ + 1]
    /\ alert_notifications' = alert_notifications \o
           <<NewRow(Min(ActiveSubscribers), alertType[e], waterLevel[e], status[e])>>
    /\ epc' = [epc EXCEPT ![e] = "caught"]
    /\ UNCHANGED <<now, sms_subscribers, SMS_DISABLED, pollVars, ackReply,
                   level, waterLevel, status, alertType, inserting, histVars>>

QueueAlertsFails(e) ==
    /\ epc[e] = "insert"
    /\ queries' = [queries EXCEPT ![e] = @ + 1]
    /\ epc' = [epc EXCEPT ![e] = "caught"]
    /\ UNCHANGED <<now, sms_subscribers, alert_notifications, SMS_DISABLED, pollVars,
                   ackReply, level, waterLevel, status, alertType, inserting, histVars>>

\* the WebSocket push and res.json({ success: true })
IngestRespond(e) ==
    /\ epc[e] \in {"done", "caught"}
    /\ epc' = [epc EXCEPT ![e] = "idle"]
    /\ level' = [level EXCEPT ![e] = 0]
    /\ waterLevel' = [waterLevel EXCEPT ![e] = 0]
    /\ status' = [status EXCEPT ![e] = "NONE"]
    /\ alertType' = [alertType EXCEPT ![e] = "NONE"]
    /\ queries' = [queries EXCEPT ![e] = 0]
    /\ UNCHANGED <<now, sms_subscribers, alert_notifications, SMS_DISABLED, pollVars,
                   ackReply, inserting, histVars>>

Ingest(e) == IngestFrom(e, RawLevels)

CheckAvg(e) == CheckAvgFrom(e, AvgValues(AvgLevels) \cup AvgFailures)

\* -------------------------------------- POST /api/alerts/subscribers
Subscribe(s) ==
    /\ sms_subscribers[s] # "active"
    /\ sms_subscribers' = [sms_subscribers EXCEPT ![s] = "active"]
    /\ UNCHANGED <<now, alert_notifications, SMS_DISABLED, pollVars, ackReply,
                   evalVars, histVars>>

\* UPDATE sms_subscribers SET is_active = FALSE: the handlers only ever set the
\* flag; it is cleared by the operator of the store
Deactivate(s) ==
    /\ sms_subscribers[s] = "active"
    /\ sms_subscribers' = [sms_subscribers EXCEPT ![s] = "inactive"]
    /\ UNCHANGED <<now, alert_notifications, SMS_DISABLED, pollVars, ackReply,
                   evalVars, histVars>>

\* ------------------------------------------------------ environment
\* the operator stops the process and starts it with SMS_DISABLED set to b
\* (process.env is read at each poll and nothing in the process assigns it).
\* Requests in flight end with the process: the store rolls back the
\* transactions of the closed connections, an INSERT it is already running is
\* left to finish first. The tables stay as they are.
Restart(b) ==
    /\ SMS_DISABLED # b
    /\ \A e \in Requests : inserting[e] = {}
    /\ SMS_DISABLED' = b
    /\ pc' = [p \in Pollers |-> "idle"]
    /\ snap' = [p \in Pollers |-> {}]
    /\ claimed' = [p \in Pollers |-> 0]
    /\ result' = [p \in Pollers |-> 0]
    /\ epc' = [e \in Requests |-> "idle"]
    /\ level' = [e \in Requests |-> 0]
    /\ waterLevel' = [e \in Requests |-> 0]
    /\ status' = [e \in Requests |-> "NONE"]
    /\ alertType' = [e \in Requests |-> "NONE"]
    /\ queries' = [e \in Requests |-> 0]
    /\ UNCHANGED <<now, sms_subscribers, alert_notifications, ackReply, inserting,
                   histVars>>

\* time passes
Tick ==
    /\ now + TickSeconds <= MaxTime
    /\ now' = now + TickSeconds
    /\ UNCHANGED <<sms_subscribers, alert_notifications, SMS_DISABLED, pollVars,
                   ackReply, evalVars, histVars>>

\* ---------------------------------------------------- specification
Polls ==
    \/ \E p \in Pollers : SelectBegin(p)
    \/ \E p \in Pollers : SelectLock(p)
    \/ \E p \in Pollers : SelectFetch(p)
    \/ \E p \in Pollers : SelectCommit(p)

Acks == \E id \in 0..(MaxRows + 1) : Acknowledge(id)

Evaluations ==
    \/ \E e \in Sensors : Ingest(e)
    \/ \E e \in Sensors : CheckAvg(e)
    \/ \E e \in Sensors : CheckCooldown(e)
    \/ \E e \in Sensors : QueueAlerts(e)
    \/ \E e \in Sensors : IngestRespond(e)

\* sensors post readings, subscribers join, dispatchers poll and acknowledge
Next ==
    \/ Polls
    \/ Acks
    \/ Evaluations
    \/ \E s \in Subscribers : Subscribe(s)
    \/ Tick

Spec == Init /\ [][Next]_vars

\* one evaluation after another over every reading a sensor can post and every
\* value the time-series store can answer with; nobody has subscribed
Alone(e) == \A f \in Sensors \ {e} : epc[f] = "idle"

NextLevels ==
    \/ \E e \in Sensors : Alone(e) /\ IngestFrom(e, AllLevels)
    \/ \E e \in Sensors :
          CheckAvgFrom(e, AvgValues(0..(ClampMax * Scale)) \cup AvgFailures)
    \/ \E e \in Sensors : CheckCooldown(e)
    \/ \E e \in Sensors : QueueAlerts(e)
    \/ \E e \in Sensors : IngestRespond(e)

SpecLevels == Init /\ [][NextLevels]_vars

\* the ingest pipeline alone, with every outcome of its store queries: a whole
\* reading, a fractional one and a non-numeric one; subscribers come and go
RawEval == {EmergencyLevel * Scale, EmergencyLevel * Scale + 1, NaN}

NextEval ==
    \/ \E e \in Sensors : IngestFrom(e, RawEval)
    \/ \E e \in Sensors : CheckAvg(e)
    \/ \E e \in Sensors : CheckCooldown(e)
    \/ \E e \in Sensors : CheckCooldownFails(e)
    \/ \E e \in Sensors : QueueAlerts(e)
    \/ \E e \in Sensors : QueueAlertsFails(e)
    \/ \E e \in Sensors : IngestRespond(e)
    \/ \E s \in Subscribers : Subscribe(s)
    \/ \E s \in Subscribers : Deactivate(s)
    \/ Tick

SpecEval == Init /\ [][NextEval]_vars

\* ingest requests in flight at the same time, and a dispatcher that polls
\* again only after its last poll was answered
PollAlone(p) == \A q \in Pollers \ {p} : pc[q] = "idle"

NextOrder ==
    \/ \E s \in Subscribers : Subscribe(s)
    \/ \E e \in Requests : IngestFrom(e, RawLevels)
    \/ \E e \in Requests : CheckAvgFrom(e, AvgValues(AvgLevels))
    \/ \E e \in Requests : CheckCooldown(e)
    \/ \E e \in Requests : InsertWrite(e)
    \/ \E e \in Requests : InsertCommit(e)
    \/ \E e \in Requests : IngestRespond(e)
    \/ \E p \in Pollers : PollAlone(p) /\ SelectBegin(p)
    \/ \E p \in Pollers : SelectLock(p)
    \/ \E p \in Pollers : SelectFetch(p)
    \/ \E p \in Pollers : SelectCommit(p)

SpecOrder == Init /\ [][NextOrder]_vars

\* the dispatch queue with a relational store that can fail at any statement
NextFail ==
    \/ Polls
    \/ \E p \in Pollers : SelectConnectFails(p)
    \/ \E p \in Pollers : SelectFails(p)
    \/ \E p \in Pollers : SelectRollbackFails(p)
    \/ Acks
    \/ \E id \in 1..(MaxRows + 1) : AcknowledgeFails(id)
    \/ Evaluations
    \/ \E s \in Subscribers : Subscribe(s)

SpecFail == Init /\ [][NextFail]_vars

\* the dispatch queue while subscribers are deactivated and reactivated; the
\* dispatcher polls again only after its last poll was answered
NextInactive ==
    \/ \E p \in Pollers : PollAlone(p) /\ SelectBegin(p)
    \/ \E p \in Pollers : SelectLock(p)
    \/ \E p \in Pollers : SelectFetch(p)
    \/ \E p \in Pollers : SelectCommit(p)
    \/ Acks
    \/ \E e \in Sensors : Ingest(e)
    \/ \E e \in Sensors : CheckAvgFrom(e, AvgValues(AvgLevels))
    \/ \E e \in Sensors : CheckCooldown(e)
    \/ \E e \in Sensors : QueueAlerts(e)
    \/ \E e \in Sensors : IngestRespond(e)
    \/ \E s \in Subscribers : Subscribe(s)
    \/ \E s \in Subscribers : Deactivate(s)

SpecInactive == Init /\ [][NextInactive]_vars

\* the dispatch queue while the operator turns the kill switch on and off
NextSwitch ==
    \/ Polls
    \/ Acks
    \/ \E e \in Sensors : Ingest(e)
    \/ \E e \in Sensors : CheckAvgFrom(e, AvgValues(AvgLevels))
    \/ \E e \in Sensors : CheckCooldown(e)
    \/ \E e \in Sensors : QueueAlerts(e)
    \/ \E e \in Sensors : IngestRespond(e)
    \/ \E s \in Subscribers : Subscribe(s)
    \/ \E b \in BOOLEAN : Restart(b)

SpecSwitch == Init /\ [][NextSwitch]_vars

\* ------------------------------------------------------------ claims
Rows == DOMAIN alert_notifications

DeliveryStatus(r) == alert_notifications[r].delivery_status

\* C1: the ids the polls respond with contain no duplicates: no row id is
\* returned by more than one poll.
ReturnedIdsDistinct == \A r \in RowIds : returned[r] <= 1

\* C2: a poll that claimed row r and responds with a row responds with r.
ReturnsClaimedRow ==
    \A p \in Pollers : (pc[p] = "commit" /\ result[p] # 0) => result[p] = claimed[p]

\* C3: no row is transitioned PENDING -> CLAIMED by two polls: every row has at
\* most one committed claim, a row has left PENDING exactly when one poll
\* claimed it, and two open transactions never hold the same row as claimed.
SingleClaim ==
    /\ \A r \in RowIds : claims[r] <= 1
    /\ \A r \in Rows : (claims[r] = 1) <=> (DeliveryStatus(r) # PENDING)
    /\ \A p, q \in Pollers :
          (p # q /\ InTx(p) /\ InTx(q)) => claimed[p] # claimed[q]

\* contention: a poll waits for the lock of the row another poll has claimed
\* and not yet committed, after an earlier claim was committed
SingleClaimWitness ==
    \E p, q \in Pollers :
        /\ InTx(p)
        /\ pc[q] = "lock" /\ Candidate(q) = claimed[p] /\ Blocked(q, claimed[p])
        /\ \E r \in Rows : claims[r] = 1

\* C4: no spurious "no work": a poll answers [] at STEP 1 only when every row
\* its statement saw PENDING has been claimed by then (a poll that waited on a
\* row lock goes on to the next PENDING row), and every poll that claimed a
\* row responds with a row.
NoSpuriousNoWork ==
    [][\A p \in Pollers :
          /\ (pc[p] = "lock" /\ pc'[p] = "idle")
                => \A i \in snap[p] : DeliveryStatus(i) # PENDING
          /\ (pc[p] = "commit" /\ pc'[p] = "idle") => result[p] # 0]_vars

\* a poll whose first candidate was claimed by another poll while it waited,
\* with a later row of its snapshot still PENDING and free
NoSpuriousNoWorkWitness ==
    \E p \in Pollers :
        /\ pc[p] = "lock"
        /\ snap[p] # {}
        /\ DeliveryStatus(Min(snap[p])) = CLAIMED
        /\ Candidate(p) > Min(snap[p])
        /\ ~Blocked(p, Candidate(p))

\* the ids some poll responded with and no acknowledgement has settled
Handed == {r \in Rows : returned[r] > 0 /\ DeliveryStatus(r) = CLAIMED}

PollerStep(p) ==
    SelectBegin(p) \/ SelectLock(p) \/ SelectFetch(p) \/ SelectCommit(p)

AckHanded == \E id \in Handed : Acknowledge(id)

\* pollers keep polling and acknowledge every id they are handed
FairSpec ==
    /\ Spec
    /\ \A p \in Pollers : WF_vars(PollerStep(p))
    /\ WF_vars(AckHanded)

\* C5: no lost deliveries: every enqueued row (its subscriber stays active)
\* eventually reaches SENT.
NoLostDeliveries ==
    \A r \in RowIds : (r \in Rows) ~> (r \in Rows /\ DeliveryStatus(r) = SENT)

AckOnce ==
    \A r \in Rows :
        /\ sentReplies[r] <= 1
        /\ alert_notifications[r].attempt_count = sentReplies[r]
        /\ (DeliveryStatus(r) = SENT) <=> (sentReplies[r] = 1)

\* C6: acknowledge idempotence: over all the acknowledgements of an id "SENT"
\* is answered at most once and attempt_count is the number of "SENT" answers;
\* an acknowledgement of a row already SENT answers "SKIPPED" and leaves the
\* table (status, sent_at, attempt_count) as it was.
AckIdempotence ==
    /\ []AckOnce
    /\ [][\A id \in Rows :
             (DeliveryStatus(id) = SENT /\ Acknowledge(id))
                => /\ ackReply' = <<id, "SKIPPED">>
                   /\ alert_notifications' = alert_notifications]_vars

\* a second acknowledgement of a row was answered "SKIPPED" after the first
\* one was answered "SENT"
AckIdempotenceWitness ==
    \E r \in Rows :
        /\ ackReply = <<r, "SKIPPED">>
        /\ sentReplies[r] = 1
        /\ DeliveryStatus(r) = SENT
        /\ alert_notifications[r].attempt_count = 1

\* C7: an acknowledgement of an id whose row is PENDING, SENT or does not
\* exist answers "SKIPPED" and changes no row; no row goes from PENDING to SENT
\* in one step.
AckOnlyClaimed ==
    [][/\ \A id \in 1..(MaxRows + 1) :
             (Acknowledge(id) /\ ~(id \in Rows /\ DeliveryStatus(id) = CLAIMED))
                => /\ ackReply' = <<id, "SKIPPED">>
                   /\ alert_notifications' = alert_notifications
       /\ \A r \in Rows :
             DeliveryStatus(r) = PENDING
                => alert_notifications'[r].delivery_status # SENT]_vars

\* the acknowledgement of a row that is PENDING was answered "SKIPPED", and
\* the row has never been claimed
AckOnlyClaimedWitness ==
    \E r \in Rows :
        /\ ackReply = <<r, "SKIPPED">>
        /\ DeliveryStatus(r) = PENDING
        /\ sentReplies[r] = 0

\* the threshold table of the specification: <<threshold in cm, severity, alert type>>
Tiers ==
    {<<EmergencyLevel, "EMERGENCY", "EMERGENCY">>, <<DangerLevel, "DANGER", "DANGER">>,
     <<WarningLevel, "WARNING", "WARNING">>, <<CautionLevel, "CAUTION", "ALERT">>}

HighestTier(v) ==
    LET met == {t \in Tiers : t[1] * Scale <= v}
    IN  IF met = {} THEN <<"NONE", "NONE">>
        ELSE LET top == CHOOSE t \in met : \A u \in met : u[1] <= t[1]
             IN  <<top[2], top[3]>>

Classified(e) == epc[e] \in {"cooldown", "insert", "done", "caught"}

\* C8: severity classification: once checkAlerts has passed its threshold
\* logic, the severity (and alert type) it holds is the one of the highest
\* threshold not exceeding the smoothed level, none below the lowest.
SeverityClassification ==
    \A e \in Sensors :
        Classified(e) => <<status[e], alertType[e]>> = HighestTier(waterLevel[e])

\* an evaluation holds a smoothed level of exactly 100 cm, classified EMERGENCY
SeverityClassificationWitness ==
    \E e \in Sensors :
        /\ epc[e] = "cooldown"
        /\ waterLevel[e] = EmergencyLevel * Scale
        /\ status[e] = "EMERGENCY"

\* C9: below-threshold short circuit: an evaluation whose smoothed level is
\* below 20 cm is over right after the threshold logic, has issued no query to
\* the relational store, and no row of the queue carries a level below 20 cm.
BelowThresholdShortCircuit ==
    /\ \A e \in Sensors :
        (Classified(e) /\ waterLevel[e] < CautionLevel * Scale)
            => /\ epc[e] = "done"
               /\ status[e] = "NONE"
               /\ queries[e] = 0
    /\ \A i \in Rows : alert_notifications[i].water_level_cm >= CautionLevel * Scale

\* an evaluation of a level just below 20 cm has returned
BelowThresholdWitness ==
    \E e \in Sensors :
        /\ epc[e] = "done"
        /\ waterLevel[e] = CautionLevel * Scale - 1
        /\ queries[e] = 0

\* sent_at of the most recently sent notification of severity s, NULL if none
MostRecentSent(s) ==
    LET sent == {i \in Rows : /\ alert_notifications[i].status = s
                              /\ alert_notifications[i].sent_at # NULL}
    IN  IF sent = {} THEN NULL ELSE Max({alert_notifications[i].sent_at : i \in sent})

InCooldown(s) ==
    /\ MostRecentSent(s) # NULL
    /\ now - MostRecentSent(s) < Cooldown(s)

\* C10: cooldown suppression: whenever the most recently sent notification of
\* severity S was sent less than cooldown(S) seconds ago, the cooldown check of
\* an evaluation classified S ends the evaluation (no insert follows),
\* whatever other rows of severity S are in the table.
CooldownSuppression ==
    [][\A e \in Sensors :
          (CheckCooldown(e) /\ InCooldown(status[e])) => epc'[e] = "done"]_vars

\* the rows a step appended to the table are one per active subscriber and none
\* for the others, each PENDING with the evaluation's severity, alert type and
\* smoothed level; the rows that were there are as they were
FannedOut(e) ==
    LET old == alert_notifications
        new == alert_notifications'
        added == (Len(old) + 1)..Len(new)
    IN  /\ Len(new) >= Len(old)
        /\ \A i \in DOMAIN old : new[i] = old[i]
        /\ \A s \in Subscribers :
              Cardinality({i \in added : new[i].subscriber_id = s})
                  = IF sms_subscribers[s] = "active" THEN 1 ELSE 0
        /\ \A i \in added :
              /\ new[i].delivery_status = PENDING
              /\ new[i].status = status[e]
              /\ new[i].alert_type = alertType[e]
              /\ new[i].water_level_cm = waterLevel[e]

\* C11: enqueue fan-out: when no notification of severity S was ever sent, or
\* the most recent one was sent at least cooldown(S) seconds ago, the cooldown
\* check of an evaluation classified S passes, and its INSERT adds exactly one
\* PENDING row per active subscriber (severity and smoothed level of the
\* evaluation), none for the others, and modifies no row.
EnqueueFanOut ==
    [][\A e \in Sensors :
          /\ (CheckCooldown(e) /\ ~InCooldown(status[e])) => epc'[e] = "insert"
          /\ QueueAlerts(e) => FannedOut(e)]_vars

\* C12: minimum interval between the alerts of a tier: no subscriber holds two
\* rows of the same severity S enqueued less than cooldown(S) seconds apart.
\* Time starts at 0 and every row was enqueued at or before now, so while
\* now < cooldown(S) any two rows of S were enqueued less than cooldown(S) apart.
MinimumInterval ==
    \A i, j \in Rows :
        (/\ i < j
         /\ alert_notifications[i].subscriber_id = alert_notifications[j].subscriber_id
         /\ alert_notifications[i].status = alert_notifications[j].status)
            => now >= Cooldown(alert_notifications[i].status)

NoPending == \A r \in Rows : DeliveryStatus(r) # PENDING

\* C13: claim emptiness: while no row is PENDING, a poll that starts takes an
\* empty snapshot and changes nothing, and a poll at its claim statement is not
\* kept waiting and answers [] (the rowCount branch), changing no row and
\* handing out no row, whatever rows are CLAIMED or SENT.
ClaimEmptiness ==
    /\ [](\A p \in Pollers : (pc[p] = "lock" /\ NoPending) => Candidate(p) = 0)
    /\ [][\A p \in Pollers :
             /\ (SelectBegin(p) /\ NoPending /\ ~SMS_DISABLED)
                   => /\ pc'[p] = "lock" /\ snap'[p] = {}
                      /\ alert_notifications' = alert_notifications
                      /\ returned' = returned
             /\ (pc[p] = "lock" /\ NoPending /\ pc'[p] # "lock")
                   => /\ pc'[p] = "idle"
                      /\ alert_notifications' = alert_notifications
                      /\ returned' = returned /\ claims' = claims]_vars

\* a poll that started with no PENDING row, a CLAIMED and a SENT row in the table
ClaimEmptinessWitness ==
    \E p \in Pollers :
        /\ pc[p] = "lock" /\ snap[p] = {}
        /\ NoPending
        /\ \E r \in Rows : DeliveryStatus(r) = CLAIMED
        /\ \E r \in Rows : DeliveryStatus(r) = SENT

\* C14: FIFO claim order: the row a poll's claim takes is the lowest-id row
\* among the rows its claim statement sees PENDING, and every claim that
\* commits is of a higher id than all the rows claimed before it.
FifoClaimOrder ==
    [][\A p \in Pollers :
          /\ (pc[p] = "lock" /\ pc'[p] = "fetch")
                => claimed'[p] = Min({i \in snap[p] : DeliveryStatus(i) = PENDING})
          /\ (pc[p] = "commit" /\ pc'[p] = "idle")
                => \A r \in Rows : claims[r] > 0 => r < claimed[p]]_vars

\* C15: error isolation of the pipeline: a failure of the time-series query
\* leaves the evaluation running; a failure of the cooldown query or of the
\* INSERT ends in the handler's catch with the table as it was (no row of a
\* failed INSERT stays); and from there, as after an evaluation without
\* failure, the handler can only go on to its broadcast and success response.
ErrorIsolation ==
    /\ [](\A e \in Sensors :
             epc[e] \in {"done", "caught"} => ENABLED IngestRespond(e))
    /\ [][\A e \in Sensors :
             /\ (epc[e] = "avg" /\ epc'[e] # "avg")
                   => /\ epc'[e] \in {"cooldown", "done"}
                      /\ alert_notifications' = alert_notifications
             /\ (epc[e] = "cooldown" /\ epc'[e] # "cooldown")
                   => /\ epc'[e] \in {"insert", "done", "caught"}
                      /\ alert_notifications' = alert_notifications
             /\ (epc[e] = "insert" /\ epc'[e] # "insert")
                   => \/ epc'[e] = "done" /\ FannedOut(e)
                      \/ /\ epc'[e] = "caught"
                         /\ alert_notifications' = alert_notifications
             /\ (epc[e] \in {"done", "caught"} /\ epc'[e] # epc[e])
                   => /\ IngestRespond(e)
                      /\ alert_notifications' = alert_notifications]_vars

\* the INSERT of an evaluation failed while a subscriber was active, and the
\* handler is in its catch block
ErrorIsolationWitness ==
    \E e \in Sensors :
        /\ epc[e] = "caught"
        /\ queries[e] = 2
        /\ IsWhole(waterLevel[e])
        /\ ActiveSubscribers # {}

\* the whole number of centimetres nearest to v, halves going up
Nearest(v) ==
    CHOOSE w \in {k * Scale : k \in 0..ClampMax} :
        2 * (w - v) <= Scale /\ 2 * (v - w) < Scale

\* C16: smoothing fallback: when the time-series query throws, returns no rows
\* or returns a null value, the classifier works on the reading as the handler
\* passed it in and the evaluation goes on to the cooldown check (at 20 cm or
\* more); when the store returns a value, the classifier works on that value
\* rounded to the nearest whole number.
SmoothingFallback ==
    [][\A e \in Sensors :
          /\ CheckAvgFrom(e, AvgFailures)
                => /\ waterLevel'[e] = level[e]
                   /\ <<status'[e], alertType'[e]>> = HighestTier(level[e])
                   /\ epc'[e] = IF level[e] >= CautionLevel * Scale
                                THEN "cooldown" ELSE "done"
          /\ \A v \in 0..(ClampMax * Scale) :
                CheckAvgFrom(e, {<<"value", v>>})
                   => /\ waterLevel'[e] = Nearest(v)
                      /\ <<status'[e], alertType'[e]>> = HighestTier(Nearest(v))]_vars

\* an evaluation is at its cooldown check with a smoothed level that is not a
\* whole number: the reading itself, after a failed time-series query
SmoothingFallbackWitness ==
    \E e \in Sensors :
        /\ epc[e] = "cooldown"
        /\ waterLevel[e] = level[e]
        /\ ~IsWhole(waterLevel[e])
        /\ status[e] = "WARNING"

\* C17: a storage failure during a poll or an acknowledgement surfaces only as
\* the empty result or as "SKIPPED": every poll is answered, and an
\* acknowledgement of a numeric id is answered "SENT" or "SKIPPED" ("INVALID",
\* the answer to an id that is not a number, is left aside).
StorageFailureSurfaced ==
    /\ \A p \in Pollers : pc[p] # "failed"
    /\ ackReply[2] \in {"NONE", "SENT", "SKIPPED", "INVALID"}

\* C18: invalid input never enters the pipeline; in particular the request of
\* a reading that is not a number (level NaN) adds no row to the table.
InvalidInputRejected ==
    [][\A e \in Sensors :
          level[e] = NaN => alert_notifications' = alert_notifications]_vars

\* C19: delivery lifecycle: in every step rows are only added, and added
\* PENDING; a row's delivery_status stays or moves PENDING -> CLAIMED or
\* CLAIMED -> SENT; PENDING -> CLAIMED happens only when a poll commits its
\* claim of that row; a SENT row is left exactly as it is.
DeliveryLifecycle ==
    [][/\ Len(alert_notifications') >= Len(alert_notifications)
       /\ \A r \in DOMAIN alert_notifications' \ DOMAIN alert_notifications :
             alert_notifications'[r].delivery_status = PENDING
       /\ \A r \in DOMAIN alert_notifications :
             LET a == alert_notifications[r].delivery_status
                 b == alert_notifications'[r].delivery_status
             IN  /\ <<a, b>> \in {<<PENDING, PENDING>>, <<PENDING, CLAIMED>>,
                                  <<CLAIMED, CLAIMED>>, <<CLAIMED, SENT>>,
                                  <<SENT, SENT>>}
                 /\ (a = PENDING /\ b = CLAIMED)
                       => \E p \in Pollers : SelectCommit(p) /\ claimed[p] = r
                 /\ a = SENT => alert_notifications'[r] = alert_notifications[r]]_vars

\* a row went through the whole lifecycle while another is CLAIMED and a third
\* is PENDING
DeliveryLifecycleWitness ==
    /\ \E r \in Rows : DeliveryStatus(r) = SENT /\ claims[r] = 1 /\ sentReplies[r] = 1
    /\ \E r \in Rows : DeliveryStatus(r) = CLAIMED
    /\ \E r \in Rows : DeliveryStatus(r) = PENDING

\* C20: inactive subscribers are never handed out: the row a poll's fetch
\* yields belongs to a subscriber that is active at that moment; a poll whose
\* claimed row belongs to a subscriber that is inactive at its fetch yields no
\* row; and a CLAIMED row stays CLAIMED until an acknowledgement of its id.
InactiveNeverHandedOut ==
    [][/\ \A p \in Pollers :
             SelectFetch(p)
                => /\ result'[p] # 0
                         => sms_subscribers[alert_notifications[result'[p]].subscriber_id]
                                = "active"
                   /\ sms_subscribers[alert_notifications[claimed[p]].subscriber_id]
                          # "active" => result'[p] = 0
       /\ \A r \in Rows :
             (DeliveryStatus(r) = CLAIMED
                 /\ alert_notifications'[r].delivery_status # CLAIMED)
                => Acknowledge(r)]_vars

\* the transaction of poll p, open with its claim UPDATE done, ends in this step
\* without its COMMIT
FailsAfterClaim(p) == InTx(p) /\ ~InTx(p)' /\ ~SelectCommit(p)

\* C21: claim atomicity on failure: while a poll's transaction is open no other
\* poll's fetch has yielded the row it claimed; and when the transaction fails
\* after its claim UPDATE and before COMMIT, the poll is answered the empty
\* result, the row is PENDING for later polls, and neither a claim nor a
\* returned delivery is recorded.
ClaimAtomicityOnFailure ==
    /\ [](\A p \in Pollers : InTx(p)
             => /\ alert_notifications[claimed[p]].delivery_status = PENDING
                /\ \A q \in Pollers \ {p} : result[q] # claimed[p])
    /\ [][\A p \in Pollers :
            FailsAfterClaim(p)
               => /\ pc'[p] = "idle"
                  /\ alert_notifications'[claimed[p]].delivery_status = PENDING
                  /\ claimed[p] \in Visible'
                  /\ UNCHANGED <<alert_notifications, histVars>>]_vars

\* C22: timestamp/attempt invariant: a row has a sent_at if and only if it is
\* SENT, its attempt_count is 1 if it is SENT and 0 otherwise; so PENDING and
\* CLAIMED rows have sent_at NULL.
TimestampAttempt ==
    \A r \in Rows :
       /\ alert_notifications[r].sent_at # NULL <=> DeliveryStatus(r) = SENT
       /\ alert_notifications[r].attempt_count = IF DeliveryStatus(r) = SENT THEN 1 ELSE 0

\* the cooldown query of an evaluation runs over a tier that holds a SENT row
\* with its timestamp, a CLAIMED row and a PENDING row, both without one
TimestampAttemptWitness ==
    \E e \in Sensors :
       /\ epc[e] = "cooldown"
       /\ \E r \in Visible :
             /\ alert_notifications[r].status = status[e]
             /\ DeliveryStatus(r) = SENT
             /\ alert_notifications[r].sent_at = now
             /\ alert_notifications[r].attempt_count = 1
       /\ \E r \in Visible :
             /\ alert_notifications[r].status = status[e]
             /\ DeliveryStatus(r) = CLAIMED
             /\ alert_notifications[r].sent_at = NULL
       /\ \E r \in Visible :
             /\ alert_notifications[r].status = status[e]
             /\ DeliveryStatus(r) = PENDING
             /\ alert_notifications[r].sent_at = NULL

\* the rows a poll starting now would see PENDING
PendingNow == {r \in Visible : DeliveryStatus(r) = PENDING}

\* C23: kill switch frame: while SMS_DISABLED is "true" no poll is past the
\* switch and none holds a claim or a row to return; a poll answered under the
\* switch changes nothing (no row, no claim, no returned delivery); no step
\* under the switch takes a row out of PENDING; and once the switch is off a
\* poll's statement sees every PENDING row and claims the one with the lowest
\* id among those still PENDING.
KillSwitchFrame ==
    /\ [](SMS_DISABLED
            => \A p \in Pollers : pc[p] = "idle" /\ claimed[p] = 0 /\ result[p] = 0)
    /\ [][/\ \A p \in Pollers :
               (SMS_DISABLED /\ SelectBegin(p))
                  => UNCHANGED <<alert_notifications, pollVars, histVars>>
          /\ SMS_DISABLED
                => /\ \A r \in Rows :
                         DeliveryStatus(r) = PENDING
                            => alert_notifications'[r] = alert_notifications[r]
                   /\ PendingNow \subseteq PendingNow'
                   /\ UNCHANGED <<claims, returned>>
          /\ \A p \in Pollers :
               (~SMS_DISABLED /\ SelectBegin(p)) => snap'[p] = PendingNow
          /\ \A p \in Pollers :
               SelectLock(p)
                  => LET left == {r \in snap[p] : DeliveryStatus(r) = PENDING}
                     IN  IF left = {} THEN pc'[p] = "idle" /\ claimed'[p] = 0
                         ELSE claimed'[p] = Min(left)]_vars

\* under the switch two rows are PENDING and a third was claimed before the
\* switch was turned on
KillSwitchFrameWitness ==
    /\ SMS_DISABLED
    /\ Cardinality(PendingNow) = 2
    /\ \E r \in Rows : DeliveryStatus(r) = CLAIMED /\ r < Min(PendingNow)

====
